---- MODULE Spec2Model ----
(***************************************************************************)
(* Model of the RAG-Chatbot front end: the streaming client askQuestion    *)
(* (services/api.ts), the chat hook useChat (hooks/useChat.ts) and the     *)
(* parts of the UI that guard them (MessageInput, Chat, MessageList).      *)
(*                                                                         *)
(* Strings the code inspects character by character (the response body,    *)
(* questions, message contents) are sequences of one-character strings.    *)
(* The response body travels as UTF-8 bytes; ASCII bytes are written as    *)
(* the character they encode.                                              *)
(***************************************************************************)
EXTENDS Integers, Sequences, FiniteSets, TLC

\* ------------------------------------------------------------------ bounds
\* number of non-blank questions sent in one behaviour
MaxRequests == 2
\* number of events the backend emits in one behaviour, over all requests
MaxEvents == 3
\* number of lines the response to a single question carries (SpecStream)
MaxLines == 2

\* ------------------------------------------------------- characters, bytes
NL == "\n"
\* the two UTF-8 bytes of the one non-ASCII character of the model, U+00E9
ByteC3 == "0xC3"
ByteA9 == "0xA9"
CharE9 == "U+00E9"
\* U+FFFD, what TextDecoder emits for a malformed byte sequence
CharFFFD == "U+FFFD"

\* value of an optional field that is absent (JS undefined)
Undefined == <<"undefined">>
\* ChatState.error when there is no error (JS null)
Null == "null"

\* the SSE marker of api.ts: line.startsWith('data: '), line.slice(6)
Marker == <<"d", "a", "t", "a", ":", " ">>

\* ------------------------------------------------------------ JS strings
IsSpace(c) == c \in {" ", NL, "\r", "\t"}

RECURSIVE TrimStart(_)
TrimStart(s) ==
    IF s = <<>> THEN <<>>
    ELSE IF IsSpace(Head(s)) THEN TrimStart(Tail(s)) ELSE s

RECURSIVE TrimEnd(_)
TrimEnd(s) ==
    IF s = <<>> THEN <<>>
    ELSE IF IsSpace(s[Len(s)]) THEN TrimEnd(SubSeq(s, 1, Len(s) - 1)) ELSE s

\* String.prototype.trim
Trim(s) == TrimEnd(TrimStart(s))

\* String.prototype.startsWith
StartsWith(s, p) == Len(s) >= Len(p) /\ SubSeq(s, 1, Len(p)) = p

\* String.prototype.slice(from) and slice(from, to), 0-based, 0 <= from <= to
SliceFrom(s, from) == SubSeq(s, from + 1, Len(s))
Slice(s, from, to) == SubSeq(s, from + 1, to)

\* String.prototype.lastIndexOf(c): 0-based index of the last c, or -1
LastIndexOf(s, c) ==
    LET hits == {i \in 1..Len(s) : s[i] = c}
    IN  IF hits = {} THEN -1
        ELSE (CHOOSE i \in hits : \A j \in hits : j <= i) - 1

\* String.prototype.split(c): the pieces between the occurrences of c
RECURSIVE SplitAcc(_, _, _)
SplitAcc(s, c, cur) ==
    IF s = <<>> THEN <<cur>>
    ELSE IF Head(s) = c THEN <<cur>> \o SplitAcc(Tail(s), c, <<>>)
    ELSE SplitAcc(Tail(s), c, Append(cur, Head(s)))
Split(s, c) == SplitAcc(s, c, <<>>)

\* (mutant) the array is returned with its duplicates
Unique_keepsDuplicates(arr) == arr

\* [...new Set(arr)]: the distinct elements in order of first occurrence
RECURSIVE UniqueAcc(_, _)
UniqueAcc(arr, seen) ==
    IF arr = <<>> THEN seen
    ELSE IF \E i \in 1..Len(seen) : seen[i] = Head(arr)
         THEN UniqueAcc(Tail(arr), seen)
         ELSE UniqueAcc(Tail(arr), Append(seen, Head(arr)))
Unique(arr) == UniqueAcc(arr, <<>>)

\* ------------------------------------------------- UTF-8 (TextDecoder)
\* TextEncoder: one byte per ASCII character, two for U+00E9
RECURSIVE Utf8Encode(_)
Utf8Encode(s) ==
    IF s = <<>> THEN <<>>
    ELSE (IF Head(s) = CharE9 THEN <<ByteC3, ByteA9>> ELSE <<Head(s)>>)
         \o Utf8Encode(Tail(s))

\* decoder.decode(value, {stream: true}) with the bytes the decoder holds
\* back from the previous call: the text produced and the bytes held back
RECURSIVE DecodeAcc(_, _)
DecodeAcc(bytes, out) ==
    IF bytes = <<>> THEN [text |-> out, pending |-> <<>>]
    ELSE IF Head(bytes) = ByteC3
         THEN IF Len(bytes) = 1 THEN [text |-> out, pending |-> bytes]
              ELSE IF bytes[2] = ByteA9
                   THEN DecodeAcc(Tail(Tail(bytes)), Append(out, CharE9))
                   ELSE DecodeAcc(Tail(bytes), Append(out, CharFFFD))
    ELSE IF Head(bytes) = ByteA9
         THEN DecodeAcc(Tail(bytes), Append(out, CharFFFD))
    ELSE DecodeAcc(Tail(bytes), Append(out, Head(bytes)))
Decode(pending, value) == DecodeAcc(pending \o value, <<>>)

\* ------------------------------------------------------------ StreamChunk
\* the names of documents and the texts the model's events carry
SourceNames == {"p", "q"}
AnswerChars == {"x", CharE9}
ErrorChars  == {"!"}

SourcesChunk(l) == [sources |-> l, answer |-> Undefined, error |-> Undefined]
AnswerChunk(t)  == [sources |-> Undefined, answer |-> t, error |-> Undefined]
ErrorChunk(m)   == [sources |-> Undefined, answer |-> Undefined, error |-> m]

IsSourcesChunk(c) == c.sources # Undefined
IsAnswerChunk(c)  == c.answer # Undefined
IsErrorChunk(c)   == c.error # Undefined

\* JSON.stringify of a StreamChunk, in the compact notation of the model:
\* {S<names>} for {"sources":[...]}, {A<text>} for {"answer":"..."} and
\* {E<text>} for {"error":"..."}
JSONStringify(c) ==
    IF IsSourcesChunk(c) THEN <<"{", "S">> \o c.sources \o <<"}">>
    ELSE IF IsAnswerChunk(c) THEN <<"{", "A">> \o c.answer \o <<"}">>
    ELSE <<"{", "E">> \o c.error \o <<"}">>

SyntaxError == [sources |-> <<"SyntaxError">>, answer |-> <<"SyntaxError">>,
                error |-> <<"SyntaxError">>]

AllIn(s, set) == \A i \in 1..Len(s) : s[i] \in set

\* JSON.parse: the chunk a text denotes, or SyntaxError
JSONParse(s) ==
    IF Len(s) >= 3 /\ s[1] = "{" /\ s[Len(s)] = "}"
    THEN LET body == SubSeq(s, 3, Len(s) - 1)
         IN  IF s[2] = "S" /\ AllIn(body, SourceNames) THEN SourcesChunk(body)
             ELSE IF s[2] = "A" /\ AllIn(body, AnswerChars) THEN AnswerChunk(body)
             ELSE IF s[2] = "E" /\ AllIn(body, ErrorChars) THEN ErrorChunk(body)
             ELSE SyntaxError
    ELSE SyntaxError

\* ------------------------------------------------------------ processLines
\* what one line makes processLines pass to onChunk: nothing or one chunk
LineChunks(line) ==
    IF Trim(line) = <<>> \/ ~StartsWith(line, Marker) THEN <<>>
    ELSE LET jsonStr == Trim(SliceFrom(line, 6))
         IN  IF jsonStr = <<>> THEN <<>>
             ELSE IF JSONParse(jsonStr) = SyntaxError THEN <<>>
             ELSE <<JSONParse(jsonStr)>>

\* (mutant) the lines are processed last to first
RECURSIVE FlatMapLines_reversed(_)
FlatMapLines_reversed(lines) ==
    IF lines = <<>> THEN <<>>
    ELSE FlatMapLines_reversed(Tail(lines)) \o LineChunks(Head(lines))

\* (mutant) the first line that cannot be used ends the processing
RECURSIVE FlatMapLines_stopsAtUnusable(_)
FlatMapLines_stopsAtUnusable(lines) ==
    IF lines = <<>> THEN <<>>
    ELSE IF LineChunks(Head(lines)) = <<>> THEN <<>>
    ELSE LineChunks(Head(lines)) \o FlatMapLines_stopsAtUnusable(Tail(lines))

\* the loop of processLines over the lines of the text
RECURSIVE FlatMapLines(_)
FlatMapLines(lines) ==
    IF lines = <<>> THEN <<>>
    ELSE LineChunks(Head(lines)) \o FlatMapLines(Tail(lines))

\* processLines(text, onChunk): the chunks passed to onChunk, in call order
ProcessLines(text) == FlatMapLines(Split(text, NL))

\* ------------------------------------------------------------ askQuestion
\* calls of the three callbacks of askQuestion, as logged per request
NoChunk == [sources |-> Undefined, answer |-> Undefined, error |-> Undefined]
ChunkCall(c)  == [cb |-> "onChunk", chunk |-> c, msg |-> ""]
CompleteCall  == [cb |-> "onComplete", chunk |-> NoChunk, msg |-> ""]
ErrorCall(m)  == [cb |-> "onError", chunk |-> NoChunk, msg |-> m]

ChunkCalls(chunks) == [i \in 1..Len(chunks) |-> ChunkCall(chunks[i])]

\* (mutant) the buffer is emptied after the complete lines were processed
ReadStep_dropsTail(st, value) ==
    LET dec == Decode(st.pending, value)
        buf == st.buffer \o dec.text
        lastNewlineIndex == LastIndexOf(buf, NL)
    IN  IF lastNewlineIndex # -1
        THEN [buffer  |-> <<>>,
              pending |-> dec.pending,
              chunks  |-> ProcessLines(Slice(buf, 0, lastNewlineIndex))]
        ELSE [buffer |-> buf, pending |-> dec.pending, chunks |-> <<>>]

\* (mutant) the processed lines are left in the buffer
ReadStep_keepsLines(st, value) ==
    LET dec == Decode(st.pending, value)
        buf == st.buffer \o dec.text
        lastNewlineIndex == LastIndexOf(buf, NL)
    IN  IF lastNewlineIndex # -1
        THEN [buffer  |-> buf,
              pending |-> dec.pending,
              chunks  |-> ProcessLines(Slice(buf, 0, lastNewlineIndex))]
        ELSE [buffer |-> buf, pending |-> dec.pending, chunks |-> <<>>]

\* One iteration of the read loop for a read that returned a value: decode,
\* append to the buffer, cut the buffer at its last newline and hand the
\* complete lines to processLines.  st is [buffer, pending]; the result adds
\* the chunks passed to onChunk.
ReadStep(st, value) ==
    LET dec == Decode(st.pending, value)
        buf == st.buffer \o dec.text
        lastNewlineIndex == LastIndexOf(buf, NL)
    IN  IF lastNewlineIndex # -1
        THEN [buffer  |-> SliceFrom(buf, lastNewlineIndex + 1),
              pending |-> dec.pending,
              chunks  |-> ProcessLines(Slice(buf, 0, lastNewlineIndex))]
        ELSE [buffer |-> buf, pending |-> dec.pending, chunks |-> <<>>]

\* (mutant) the rest of the buffer is not processed at the end of the stream
DoneCalls_skipsBuffer(buffer) == <<CompleteCall>>

\* The iteration for a read that returned done: the rest of the buffer goes
\* to processLines, then onComplete is called.
DoneCalls(buffer) ==
    (IF buffer # <<>> THEN ChunkCalls(ProcessLines(buffer)) ELSE <<>>)
    \o <<CompleteCall>>

\* (mutant) the catch block logs the error and calls nothing
CatchCalls_swallows(msg) == <<>>

\* the catch block: onError(error)
CatchCalls(msg) == <<ErrorCall(msg)>>

\* ---------------------------------------------------------------- useChat
UserMessage(id, question) ==
    [id |-> id, role |-> "user", content |-> question, sources |-> Undefined]

AssistantMessage(id) ==
    [id |-> id, role |-> "assistant", content |-> <<>>, sources |-> <<>>]

\* (mutant) the new answer text is put in front of the content
UpdateMsg_prepends(msg, chunk) ==
    LET withSources ==
            IF chunk.sources # Undefined
            THEN Unique((IF msg.sources = Undefined THEN <<>> ELSE msg.sources)
                        \o chunk.sources)
            ELSE msg.sources
        withAnswer ==
            IF chunk.answer # Undefined /\ chunk.answer # <<>>
            THEN chunk.answer \o msg.content
            ELSE msg.content
    IN  [msg EXCEPT !.sources = withSources, !.content = withAnswer]

\* the onChunk callback's update of the assistant message
UpdateMsg(msg, chunk) ==
    LET withSources ==
            IF chunk.sources # Undefined
            THEN Unique((IF msg.sources = Undefined THEN <<>> ELSE msg.sources)
                        \o chunk.sources)
            ELSE msg.sources
        withAnswer ==
            IF chunk.answer # Undefined /\ chunk.answer # <<>>
            THEN msg.content \o chunk.answer
            ELSE msg.content
    IN  [msg EXCEPT !.sources = withSources, !.content = withAnswer]

\* (mutant) every assistant message is updated, whatever its id
OnChunk_anyAssistant(st, assistantMsgId, chunk) ==
    [st EXCEPT !.messages =
        [i \in DOMAIN st.messages |->
            IF st.messages[i].role = "assistant"
            THEN UpdateMsg(st.messages[i], chunk)
            ELSE st.messages[i]]]

\* (mutant) the last message of the list is updated, whatever its id
OnChunk_lastMessage(st, assistantMsgId, chunk) ==
    [st EXCEPT !.messages =
        [i \in DOMAIN st.messages |->
            IF i = Len(st.messages)
            THEN UpdateMsg(st.messages[i], chunk)
            ELSE st.messages[i]]]

\* the onChunk callback: prev.messages.map(...)
OnChunk(st, assistantMsgId, chunk) ==
    [st EXCEPT !.messages =
        [i \in DOMAIN st.messages |->
            IF st.messages[i].id = assistantMsgId
            THEN UpdateMsg(st.messages[i], chunk)
            ELSE st.messages[i]]]

\* (mutant) completion leaves isLoading as it is
OnComplete_keepsLoading(st) == st

\* the onComplete callback
OnComplete(st) == [st EXCEPT !.isLoading = FALSE]

\* (mutant) the error is logged but not stored in the state
OnError_forgetsError(st, msg) == [st EXCEPT !.isLoading = FALSE]

\* (mutant) the partial assistant message is removed from the list
OnError_retracts(st, msg) ==
    [st EXCEPT !.isLoading = FALSE, !.error = msg,
               !.messages = SubSeq(st.messages, 1, Len(st.messages) - 1)]

\* the onError callback
OnError(st, msg) == [st EXCEPT !.isLoading = FALSE, !.error = msg]

\* the state updates queued by a run of callback calls, applied in order
RECURSIVE RunCallbacks(_, _, _)
RunCallbacks(st, assistantMsgId, calls) ==
    IF calls = <<>> THEN st
    ELSE LET c == Head(calls)
             next == IF c.cb = "onChunk" THEN OnChunk(st, assistantMsgId, c.chunk)
                     ELSE IF c.cb = "onComplete" THEN OnComplete(st)
                     ELSE OnError(st, c.msg)
         IN  RunCallbacks(next, assistantMsgId, Tail(calls))

\* MessageList: whether a message is rendered with a SourceTag
ShowsSourceTag(msg) ==
    msg.role = "assistant" /\ msg.sources # Undefined /\ Len(msg.sources) > 0

\* ------------------------------------------------------------------ state
VARIABLES
    messages,   \* ChatState.messages
    isLoading,  \* ChatState.isLoading
    error,      \* ChatState.error
    nextId,     \* the ids generateId has handed out
    reqs,       \* the askQuestion calls made so far, one record each
    linesSent,  \* lines the response streams have carried so far
    input,      \* MessageInput: the text in the textarea
    upload,     \* DocumentUpload: activeTab, text, source, files, isUploading, message
    job,        \* the handleUpload call that is running, if any
    store,      \* the backend's vector store: its chunks in storage order
    inserted,   \* chunks the store has ever been given (the last id assigned)
    ingests,    \* history: the ingest requests issued, with their outcomes
    documents,  \* App: the document list shown in the sidebar
    isDeleting, \* App: the source whose delete is shown as running
    fetches,    \* the fetchDocs calls made so far, in issue order
    deletes,    \* the handleDelete calls made so far, with their progress
    ops         \* uploads and deletes the user has started so far

chatVars == <<messages, isLoading, error, nextId, reqs, linesSent, input>>
docVars == <<upload, job, store, inserted, ingests, documents, isDeleting,
             fetches, deletes, ops>>
vars == <<chatVars, docVars>>

Questions == {<<"h", "i">>, <<" ">>}

\* messages of the errors askQuestion can catch before the first read
EarlyErrors == {"Failed to fetch", "HTTP error! status: 500", "No response body"}
\* message of the error of a read() that rejects
ReadError == "network error"

\* a line of the event stream: the marker and one JSON object
DataLine(chunk) == Marker \o JSONStringify(chunk)

\* lines a response of any content may carry: events, a blank line, a data
\* line whose JSON is cut short, and a JSON object without the marker
WireLines ==
    { DataLine(SourcesChunk(<<"p">>)),
      DataLine(SourcesChunk(<<"q", "p", "q">>)),
      DataLine(AnswerChunk(<<"x">>)),
      DataLine(AnswerChunk(<<CharE9>>)),
      <<>>,
      Marker \o <<"{", "A">>,
      JSONStringify(AnswerChunk(<<"x">>)) }

\* events the backend emits
BackendSourcesEvents == { SourcesChunk(<<>>), SourcesChunk(<<"p">>) }
BackendAnswerEvents  == { AnswerChunk(<<"x">>) }
BackendErrorEvents   == { ErrorChunk(<<"!">>) }

\* JSON.stringify(request) of an AskRequest, in the notation of the model:
\* {Q<text>} for {"question":"..."}
AskBody(request) == <<"{", "Q">> \o request.question \o <<"}">>

NewRequest(question, assistantMsgId) ==
    [question  |-> question,        \* argument of sendMessage
     body      |-> AskBody([question |-> question]),  \* body of the POST /ask
     asstId    |-> assistantMsgId,  \* closure variable of the callbacks
     phase     |-> "fetching",      \* fetching, reading, complete, failed
     wire      |-> <<>>,            \* bytes sent and not yet read
     closed    |-> FALSE,           \* the server writes no more
     pending   |-> <<>>,            \* bytes the TextDecoder holds back
     buffer    |-> <<>>,            \* askQuestion's buffer
     opened    |-> FALSE,           \* the backend has sent its sources event
     rxBytes   |-> <<>>,            \* history: bytes the reads of the loop returned
     atDone    |-> <<>>,            \* history: buffer when read() said done
     early     |-> FALSE,           \* history: failed before the first read
     calls     |-> <<>>]            \* history: the callback calls made

\* the chat when useChat is first rendered
InitChat ==
    /\ messages = <<>>
    /\ isLoading = FALSE
    /\ error = Null
    /\ nextId = 0
    /\ reqs = <<>>
    /\ linesSent = 0
    /\ input = <<>>

\* ---------------------------------------------------------------- actions
\* (mutant) the request carries the first message of the chat as context
SendMessage_sendsHistory(question) ==
    IF Trim(question) = <<>>
    THEN UNCHANGED vars
    ELSE /\ messages' = messages \o <<UserMessage(nextId + 1, question),
                                      AssistantMessage(nextId + 2)>>
         /\ isLoading' = TRUE
         /\ error' = Null
         /\ nextId' = nextId + 2
         /\ reqs' = Append(reqs,
                [NewRequest(question, nextId + 2) EXCEPT !.body =
                    AskBody([question |-> IF messages = <<>> THEN question
                                          ELSE messages[1].content \o question])])
         /\ UNCHANGED <<linesSent, docVars>>

\* (mutant) the question is not checked for blankness
SendMessage_sendsBlank(question) ==
    /\ messages' = messages \o <<UserMessage(nextId + 1, question),
                                 AssistantMessage(nextId + 2)>>
    /\ isLoading' = TRUE
    /\ error' = Null
    /\ nextId' = nextId + 2
    /\ reqs' = Append(reqs, NewRequest(question, nextId + 2))
    /\ UNCHANGED <<linesSent, docVars>>

\* useChat.sendMessage(question), up to the await of fetch in askQuestion
SendMessage(question) ==
    IF Trim(question) = <<>>
    THEN UNCHANGED vars
    ELSE /\ messages' = messages \o <<UserMessage(nextId + 1, question),
                                      AssistantMessage(nextId + 2)>>
         /\ isLoading' = TRUE
         /\ error' = Null
         /\ nextId' = nextId + 2
         /\ reqs' = Append(reqs, NewRequest(question, nextId + 2))
         /\ UNCHANGED <<linesSent, docVars>>

\* sendMessage called as the hook's client may call it, with any string,
\* while the chat is not loading
CallSendMessage(question) ==
    /\ Len(reqs) < MaxRequests
    /\ ~isLoading
    /\ SendMessage(question)
    /\ UNCHANGED input

\* texts the textarea can hold
InputValues == Questions \cup {<<>>}

\* keys the textarea can get
Keys == {"Enter", "a"}

\* (mutant) the textarea keeps its text after a send
HandleSend_keepsInput(text) ==
    /\ Len(reqs) < MaxRequests
    /\ IF Trim(text) # <<>> /\ ~isLoading
       THEN /\ SendMessage(text)
            /\ input' = input
       ELSE UNCHANGED vars

\* MessageInput.handleSend with the textarea holding text: onSend(input) and
\* setInput(''), or nothing
HandleSend(text) ==
    /\ Len(reqs) < MaxRequests
    /\ IF Trim(text) # <<>> /\ ~isLoading
       THEN /\ SendMessage(text)
            /\ input' = <<>>
       ELSE UNCHANGED vars

\* the textarea's onChange; the textarea is disabled while isLoading
SetInput(value) ==
    /\ ~isLoading
    /\ input' = value
    /\ UNCHANGED <<messages, isLoading, error, nextId, reqs, linesSent, docVars>>

\* the send button's disabled attribute
SendDisabled == isLoading \/ Trim(input) = <<>>

\* the send button's onClick
ClickSend ==
    /\ ~SendDisabled
    /\ HandleSend(input)

\* the textarea's onKeyDown; a disabled textarea gets no key events
HandleKeyDown(key, shiftKey) ==
    /\ ~isLoading
    /\ IF key = "Enter" /\ ~shiftKey THEN HandleSend(input) ELSE UNCHANGED vars

\* askQuestion of request r makes the calls: they are logged and the state
\* updates of the callbacks are applied (st is bound to the one resulting
\* state)
Callbacks(r, calls) ==
    \E st \in {RunCallbacks([messages |-> messages, isLoading |-> isLoading,
                             error |-> error], reqs[r].asstId, calls)} :
        /\ messages' = st.messages
        /\ isLoading' = st.isLoading
        /\ error' = st.error

\* an error reaches the catch block of request r: onError is called and
\* askQuestion returns, which ends the life of its locals and its connection
\* (the log keeps the call, the chat state keeps the message of the error)
Catch(r, msg, isEarly) ==
    /\ reqs' = [reqs EXCEPT ![r].phase = "failed",
                            ![r].early = isEarly,
                            ![r].wire = <<>>,
                            ![r].closed = TRUE,
                            ![r].pending = <<>>,
                            ![r].buffer = <<>>,
                            ![r].rxBytes = <<>>,
                            ![r].calls = @ \o [i \in DOMAIN CatchCalls(msg) |->
                                            [CatchCalls(msg)[i] EXCEPT !.msg = ""]]]
    /\ Callbacks(r, CatchCalls(msg))
    /\ UNCHANGED <<nextId, linesSent, input, docVars>>

\* fetch rejects, the status is not ok, or the response has no body
FetchFails(r) ==
    /\ reqs[r].phase = "fetching"
    /\ \E msg \in EarlyErrors : Catch(r, msg, TRUE)

\* fetch resolves with an ok response that has a body
FetchOk(r) ==
    /\ reqs[r].phase = "fetching"
    /\ reqs' = [reqs EXCEPT ![r].phase = "reading"]
    /\ UNCHANGED <<messages, isLoading, error, nextId, linesSent, input, docVars>>

\* the server writes one line to the response, with or without its newline,
\* and may stop writing after it
Emit(r, line, newline, closes, opens, budget) ==
    /\ reqs[r].phase = "reading"
    /\ ~reqs[r].closed
    /\ linesSent < budget
    /\ linesSent' = linesSent + 1
    /\ reqs' = [reqs EXCEPT
            ![r].wire = @ \o Utf8Encode(line) \o (IF newline THEN <<NL>> ELSE <<>>),
            ![r].closed = closes,
            ![r].opened = opens]
    /\ UNCHANGED <<messages, isLoading, error, nextId, input, docVars>>

\* a response of any content: the line is one of WireLines; a last line may
\* go without its newline
ServerEmit(r, line, last) ==
    Emit(r, line, ~last, last, reqs[r].opened, MaxLines)

\* the backend's answer synthesizer: one sources event, then answer events,
\* then possibly one error event, which ends the stream
BackendEmit(r, ev) ==
    /\ IF reqs[r].opened THEN ev \in BackendAnswerEvents \cup BackendErrorEvents
       ELSE ev \in BackendSourcesEvents
    /\ Emit(r, DataLine(ev), TRUE, IsErrorChunk(ev), TRUE, MaxEvents)

\* reader.read() resolves with the next k bytes (value and step are bound
\* to the bytes read and to the one result of the iteration)
ReadValue(r, k) ==
    /\ reqs[r].phase = "reading"
    /\ k \in 1..Len(reqs[r].wire)
    /\ \E value \in {SubSeq(reqs[r].wire, 1, k)} :
       \E step \in {ReadStep([buffer |-> reqs[r].buffer,
                              pending |-> reqs[r].pending], value)} :
           /\ reqs' = [reqs EXCEPT
                  ![r].wire = SubSeq(@, k + 1, Len(@)),
                  ![r].pending = step.pending,
                  ![r].buffer = step.buffer,
                  ![r].rxBytes = @ \o value,
                  ![r].calls = @ \o ChunkCalls(step.chunks)]
           /\ Callbacks(r, ChunkCalls(step.chunks))
    /\ UNCHANGED <<nextId, linesSent, input, docVars>>

\* reader.read() resolves with done, the server having closed the stream
\* after the bytes read so far
ReadDone(r) ==
    /\ reqs[r].phase = "reading"
    /\ reqs[r].wire = <<>>
    /\ reqs' = [reqs EXCEPT
            ![r].phase = "complete",
            ![r].closed = TRUE,
            ![r].atDone = reqs[r].buffer,
            ![r].calls = @ \o DoneCalls(reqs[r].buffer)]
    /\ Callbacks(r, DoneCalls(reqs[r].buffer))
    /\ UNCHANGED <<nextId, linesSent, input, docVars>>

\* the backend ends a stream only after its sources event
BackendReadDone(r) ==
    /\ reqs[r].opened
    /\ ReadDone(r)

\* reader.read() rejects: the connection broke
ReadRejects(r) ==
    /\ reqs[r].phase = "reading"
    /\ Catch(r, ReadError, FALSE)

\* useChat.clearMessages, from the button Chat shows while there are messages
ClearMessages ==
    /\ Len(messages) > 0
    /\ messages' = <<>>
    /\ isLoading' = FALSE
    /\ error' = Null
    /\ UNCHANGED <<nextId, reqs, linesSent, input, docVars>>

\* sizes of the network chunks in the chat specification: a read returns
\* one or more whole lines of the backend's stream
ChunkSizes(wire) == {k \in 1..Len(wire) : wire[k] = NL}

\* MessageInput.handleSend for the first question of a session
FirstSend(text) ==
    /\ reqs = <<>>
    /\ HandleSend(text)

\* ---------------------------------------------------------- knowledge base
\* files the user can pick in the file dialog, by file.name
FileNames == << <<"a">>, <<"b">>, <<"c">> >>
MaxFiles == 2
\* what the file input's onChange can hand to setFiles
Selections == {SubSeq(FileNames, 1, k) : k \in 0..MaxFiles}

\* values typed into the text area and into the source field
TextInputs == {<<>>, <<" ">>, <<"t">>}
SourceInputs == {<<>>, <<" ">>, <<"s">>}

\* the message state of DocumentUpload: null, or a type and a text; the
\* numbers and the label the success texts are built from are kept apart
NoMessage == [type |-> "none", text |-> "", chunks |-> 0, files |-> 0, source |-> <<>>]
ErrorMessage(text) ==
    [type |-> "error", text |-> text, chunks |-> 0, files |-> 0, source |-> <<>>]
TextSuccess(response) ==
    [type |-> "success", text |-> "Successfully processed chunks from source",
     chunks |-> response.chunks_processed, files |-> 0, source |-> response.source]
FilesSuccess(totalChunks, files) ==
    [type |-> "success", text |-> "Successfully processed chunks from file(s)",
     chunks |-> totalChunks, files |-> Len(files), source |-> <<>>]

\* (mutant) only the text is validated
ValidationMessage_textOnly(st) ==
    IF st.activeTab = "text"
    THEN IF Trim(st.text) = <<>>
         THEN ErrorMessage("Please provide both text and source name")
         ELSE NoMessage
    ELSE IF Len(st.files) = 0
         THEN ErrorMessage("Please select at least one file to upload")
         ELSE NoMessage

\* handleUpload's validation: the error message it shows, or NoMessage when
\* the upload goes ahead
ValidationMessage(st) ==
    IF st.activeTab = "text"
    THEN IF Trim(st.text) = <<>> \/ Trim(st.source) = <<>>
         THEN ErrorMessage("Please provide both text and source name")
         ELSE NoMessage
    ELSE IF Len(st.files) = 0
         THEN ErrorMessage("Please select at least one file to upload")
         ELSE NoMessage

\* the upload button's disabled attribute
UploadDisabled(st) ==
    \/ st.isUploading
    \/ st.activeTab = "text" /\ Trim(st.text) = <<>>
    \/ st.activeTab = "file" /\ Len(st.files) = 0

\* (mutant) the file's own name is always used
FileSource_ignoresOverride(source, name) == name

\* source || file.name: the label ingestFile is called with
FileSource(source, name) == IF source # <<>> THEN source ELSE name

\* (mutant) the total is the count of the last response
AddChunks_lastOnly(totalChunks, response) == response.chunks_processed

\* totalChunks += response.chunks_processed
AddChunks(totalChunks, response) == totalChunks + response.chunks_processed

\* an ingest request as logged: the handleUpload call it belongs to, what
\* it carries and under which source label, and how it ended
TextRequest(op, text, source) ==
    [op |-> op, kind |-> "text", payload |-> text, source |-> source,
     outcome |-> "pending"]
FileRequest(op, name, source) ==
    [op |-> op, kind |-> "file", payload |-> name, source |-> source,
     outcome |-> "pending"]

\* no handleUpload call is running
NoJob == [active |-> FALSE, op |-> 0, tab |-> "file", text |-> <<>>,
          source |-> <<>>, files |-> <<>>, i |-> 0, totalChunks |-> 0]

\* the ingest request a running handleUpload call issues for its position i
NextRequest(j) ==
    IF j.tab = "text" THEN TextRequest(j.op, j.text, j.source)
    ELSE FileRequest(j.op, j.files[j.i], FileSource(j.source, j.files[j.i]))

\* isDeleting when no delete is shown as running
NullSource == <<"null">>

\* the backend: chunks the chunker makes of a text or of a file's content
TextChunkCount(text) == Len(Trim(text))
FileChunkCount(name) == CHOOSE k \in DOMAIN FileNames : FileNames[k] = name
ChunkCount(request) ==
    IF request.kind = "text" THEN TextChunkCount(request.payload)
    ELSE FileChunkCount(request.payload)

\* the backend: failures of an ingestion
ValidationFailure == "Source cannot be empty"
UpstreamFailure == "HTTP error! status: 500"

\* the store's insert: n chunks under one source label, with fresh ids
InsertChunks(chunks, lastId, source, n) ==
    chunks \o [k \in 1..n |-> [id |-> lastId + k, source |-> source]]

\* the store's deleteBySource: every chunk with exactly that source goes
DeleteBySource(chunks, source) == SelectSeq(chunks, LAMBDA c : c.source # source)
DeletedCount(chunks, source) == Len(chunks) - Len(DeleteBySource(chunks, source))

\* GET /documents: one entry per chunk, in storage order
ListDocuments(chunks) == [total |-> Len(chunks), documents |-> chunks]

\* fetchDocs: the loop that keeps the first entry of each source
RECURSIVE UniqueDocsAcc(_, _, _)
UniqueDocsAcc(docs, seenSources, uniqueDocs) ==
    IF docs = <<>> THEN uniqueDocs
    ELSE IF Head(docs).source \in seenSources
         THEN UniqueDocsAcc(Tail(docs), seenSources, uniqueDocs)
         ELSE UniqueDocsAcc(Tail(docs), seenSources \cup {Head(docs).source},
                            Append(uniqueDocs, Head(docs)))
\* (mutant) every entry of the response is kept
UniqueDocs_keepsAll(docs) == docs

\* fetchDocs: uniqueDocs after the loop
UniqueDocs(docs) == UniqueDocsAcc(docs, {}, <<>>)

\* a fetchDocs call that awaits getDocuments (state pending, then ok when
\* the backend has answered, then settled or failed when the call has
\* returned); awaited is the handleDelete call that awaits it, or 0
NewFetch(awaited) == [state |-> "pending", data |-> <<>>, awaited |-> awaited]

\* the backend's answer to DELETE /documents/{source}
DeleteResponse(chunks, source) ==
    [ok |-> TRUE, status |-> "success", deleted |-> DeletedCount(chunks, source)]
\* a DELETE that did not reach the backend or that it could not serve
DeleteFailure == [ok |-> FALSE, status |-> "error", deleted |-> 0]

\* (mutant) a delete that matched nothing is treated as a failure
DeleteDocument_needsMatch(response) ==
    [threw |-> ~response.ok \/ response.deleted = 0, status |-> response.status]

\* deleteDocument: throws unless the response is ok
DeleteDocument(response) == [threw |-> ~response.ok, status |-> response.status]

\* (mutant) a failed upload is reported like a finished one
UploadFailed_reportsSuccess(st, j, msg) ==
    [st EXCEPT !.message = FilesSuccess(j.totalChunks, j.files),
               !.isUploading = FALSE]

\* handleUpload's catch and finally
UploadFailed(st, j, msg) ==
    [st EXCEPT !.message = ErrorMessage(msg), !.isUploading = FALSE]

\* stores the application may find when it is opened
InitialStores ==
    { <<>>,
      << [id |-> 1, source |-> <<"s">>], [id |-> 2, source |-> <<"a">>],
         [id |-> 3, source |-> <<"s">>] >> }

\* DocumentUpload and App when first rendered over a store; the effect of
\* App has called fetchDocs
InitKnowledge(chunks) ==
    /\ upload = [activeTab |-> "file", text |-> <<>>, source |-> <<>>,
                 files |-> <<>>, isUploading |-> FALSE, message |-> NoMessage]
    /\ job = NoJob
    /\ store = chunks
    /\ inserted = Len(chunks)
    /\ ingests = <<>>
    /\ documents = <<>>
    /\ isDeleting = NullSource
    /\ fetches = <<NewFetch(0)>>
    /\ deletes = <<>>
    /\ ops = 0

Init == InitChat /\ InitKnowledge(<<>>)

InitDocs == InitChat /\ \E chunks \in InitialStores : InitKnowledge(chunks)

\* ------------------------------------------------- knowledge base: actions
MaxOps == 2

SetOutcome(log, outcome) == [log EXCEPT ![Len(log)].outcome = outcome]

\* the tab buttons, the text area, the source field and the file input
SetActiveTab(tab) ==
    /\ upload' = [upload EXCEPT !.activeTab = tab]
    /\ UNCHANGED <<job, store, inserted, ingests, documents, isDeleting,
                   fetches, deletes, ops, chatVars>>

SetText(value) ==
    /\ upload' = [upload EXCEPT !.text = value]
    /\ UNCHANGED <<job, store, inserted, ingests, documents, isDeleting,
                   fetches, deletes, ops, chatVars>>

SetSource(value) ==
    /\ upload' = [upload EXCEPT !.source = value]
    /\ UNCHANGED <<job, store, inserted, ingests, documents, isDeleting,
                   fetches, deletes, ops, chatVars>>

SetFiles(selection) ==
    /\ upload' = [upload EXCEPT !.files = selection]
    /\ UNCHANGED <<job, store, inserted, ingests, documents, isDeleting,
                   fetches, deletes, ops, chatVars>>

\* the file input, used before the first upload of a session
SelectFiles(selection) ==
    /\ ops = 0
    /\ SetFiles(selection)

\* the upload button: handleUpload up to its first await
HandleUpload ==
    /\ ~UploadDisabled(upload)
    /\ IF ValidationMessage(upload) # NoMessage
       THEN /\ upload' = [upload EXCEPT !.message = ValidationMessage(upload)]
            /\ UNCHANGED <<job, ingests, ops>>
       ELSE /\ ops < MaxOps
            /\ ops' = ops + 1
            /\ upload' = [upload EXCEPT !.isUploading = TRUE, !.message = NoMessage]
            /\ job' = [active |-> TRUE, op |-> ops + 1, tab |-> upload.activeTab,
                       text |-> upload.text, source |-> upload.source,
                       files |-> upload.files, i |-> 1, totalChunks |-> 0]
            /\ ingests' = Append(ingests, NextRequest(job'))
    /\ UNCHANGED <<store, inserted, documents, isDeleting, fetches, deletes,
                   chatVars>>

\* the upload button, for the first upload of a session
FirstUpload ==
    /\ ops = 0
    /\ HandleUpload

\* the backend ingests what the pending request carries and answers; the
\* running handleUpload call goes on to its next await or to its end
IngestSucceeds ==
    /\ job.active
    /\ LET request  == ingests[Len(ingests)]
           n        == ChunkCount(request)
           response == [status |-> "success", chunks_processed |-> n,
                        source |-> request.source]
           total    == AddChunks(job.totalChunks, response)
       IN  /\ Trim(request.source) # <<>>
           /\ store' = InsertChunks(store, inserted, request.source, n)
           /\ inserted' = inserted + n
           /\ IF job.tab = "text"
              THEN /\ upload' = [upload EXCEPT !.message = TextSuccess(response),
                                               !.text = <<>>, !.source = <<>>,
                                               !.isUploading = FALSE]
                   /\ job' = NoJob
                   /\ ingests' = SetOutcome(ingests, "ok")
                   /\ fetches' = Append(fetches, NewFetch(0))
              ELSE IF job.i < Len(job.files)
              THEN /\ job' = [job EXCEPT !.i = @ + 1, !.totalChunks = total]
                   /\ ingests' = Append(SetOutcome(ingests, "ok"), NextRequest(job'))
                   /\ UNCHANGED <<upload, fetches>>
              ELSE /\ upload' = [upload EXCEPT
                                    !.message = FilesSuccess(total, job.files),
                                    !.files = <<>>, !.isUploading = FALSE]
                   /\ job' = NoJob
                   /\ ingests' = SetOutcome(ingests, "ok")
                   /\ fetches' = Append(fetches, NewFetch(0))
    /\ UNCHANGED <<documents, isDeleting, deletes, ops, chatVars>>

\* the pending ingest request fails: the backend rejects a blank source, or
\* an upstream failure is passed on
IngestFails ==
    /\ job.active
    /\ LET request == ingests[Len(ingests)]
           msg     == IF Trim(request.source) = <<>> THEN ValidationFailure
                      ELSE UpstreamFailure
       IN  /\ upload' = UploadFailed(upload, job, msg)
           /\ job' = NoJob
           /\ ingests' = SetOutcome(ingests, "failed")
    /\ UNCHANGED <<store, inserted, documents, isDeleting, fetches, deletes,
                   ops, chatVars>>

\* the backend serves the GET /documents of a fetchDocs call
ServeDocuments(f) ==
    /\ fetches[f].state = "pending"
    /\ fetches' = [fetches EXCEPT ![f].state = "ok",
                                  ![f].data = ListDocuments(store).documents]
    /\ UNCHANGED <<upload, job, store, inserted, ingests, documents, isDeleting,
                   deletes, ops, chatVars>>

\* a fetchDocs call returns to the handleDelete call that awaits it, if any:
\* the finally block of handleDelete
AfterFetch(f, state) ==
    /\ fetches' = [fetches EXCEPT ![f].state = state]
    /\ IF fetches[f].awaited # 0
       THEN /\ isDeleting' = NullSource
            /\ deletes' = [deletes EXCEPT ![fetches[f].awaited].state = "done"]
       ELSE UNCHANGED <<isDeleting, deletes>>

\* getDocuments resolves: fetchDocs shows the de-duplicated list
FetchDocsSettles(f) ==
    /\ fetches[f].state = "ok"
    /\ documents' = UniqueDocs(fetches[f].data)
    /\ AfterFetch(f, "settled")
    /\ UNCHANGED <<upload, job, store, inserted, ingests, ops, chatVars>>

\* getDocuments rejects: fetchDocs logs the error and keeps the list
FetchDocsFails(f) ==
    /\ fetches[f].state = "pending"
    /\ AfterFetch(f, "failed")
    /\ UNCHANGED <<upload, job, store, inserted, ingests, documents, ops,
                   chatVars>>

\* the delete button of a listed document, confirmed: handleDelete up to
\* its first await
HandleDelete(source) ==
    /\ \E i \in DOMAIN documents : documents[i].source = source
    /\ isDeleting # source
    /\ ops < MaxOps
    /\ ops' = ops + 1
    /\ isDeleting' = source
    /\ deletes' = Append(deletes, [source |-> source, state |-> "sent",
                                   status |-> "", deleted |-> 0])
    /\ UNCHANGED <<upload, job, store, inserted, ingests, documents, fetches,
                   chatVars>>

\* the DELETE of call d is answered: on an ok response handleDelete goes on
\* to await fetchDocs, otherwise to its catch and finally
DeleteResponds(d, response) ==
    /\ deletes[d].state = "sent"
    /\ store' = IF response.ok THEN DeleteBySource(store, deletes[d].source)
                ELSE store
    /\ IF DeleteDocument(response).threw
       THEN /\ deletes' = [deletes EXCEPT ![d].state = "failed",
                                          ![d].status = response.status,
                                          ![d].deleted = response.deleted]
            /\ isDeleting' = NullSource
            /\ UNCHANGED fetches
       ELSE /\ deletes' = [deletes EXCEPT ![d].state = "refreshing",
                                          ![d].status = response.status,
                                          ![d].deleted = response.deleted]
            /\ fetches' = Append(fetches, NewFetch(d))
            /\ UNCHANGED isDeleting
    /\ UNCHANGED <<upload, job, inserted, ingests, documents, ops, chatVars>>

\* the backend deletes by source and answers
DeleteSucceeds(d) ==
    /\ d \in DOMAIN deletes
    /\ DeleteResponds(d, DeleteResponse(store, deletes[d].source))

\* the DELETE fails
DeleteFails(d) ==
    /\ d \in DOMAIN deletes
    /\ DeleteResponds(d, DeleteFailure)

\* ---------------------------------------------------------- specifications
\* the chat against the backend's event streams, several questions
Next ==
    \/ \E text \in Questions : HandleSend(text)
    \/ \E r \in DOMAIN reqs : FetchFails(r)
    \/ \E r \in DOMAIN reqs : FetchOk(r)
    \/ \E r \in DOMAIN reqs :
            \E ev \in BackendSourcesEvents \cup BackendAnswerEvents
                        \cup BackendErrorEvents : BackendEmit(r, ev)
    \/ \E r \in DOMAIN reqs : \E k \in ChunkSizes(reqs[r].wire) : ReadValue(r, k)
    \/ \E r \in DOMAIN reqs : BackendReadDone(r)
    \/ \E r \in DOMAIN reqs : ReadRejects(r)
    \/ ClearMessages

Spec == Init /\ [][Next]_vars

\* a step of the network that brings a request nearer its end: its fetch
\* settles, or its response stream closes or fails
StreamEnds ==
    \E r \in DOMAIN reqs :
        \/ FetchOk(r)
        \/ FetchFails(r)
        \/ BackendReadDone(r)
        \/ ReadRejects(r)

\* what the chat relies on to finish: while such a step is possible one is
\* eventually taken.  The client has no timeout of its own.
Progress == WF_vars(StreamEnds)

\* a conversation that is not cleared, every stream of which ends
NextLive ==
    \/ \E text \in Questions : HandleSend(text)
    \/ \E r \in DOMAIN reqs : FetchFails(r)
    \/ \E r \in DOMAIN reqs : FetchOk(r)
    \/ \E r \in DOMAIN reqs :
            \E ev \in BackendSourcesEvents \cup BackendAnswerEvents
                        \cup BackendErrorEvents : BackendEmit(r, ev)
    \/ \E r \in DOMAIN reqs : \E k \in ChunkSizes(reqs[r].wire) : ReadValue(r, k)
    \/ \E r \in DOMAIN reqs : BackendReadDone(r)
    \/ \E r \in DOMAIN reqs : ReadRejects(r)

SpecLive == Init /\ [][NextLive]_vars /\ Progress

\* one question, answered by a response of any content read in chunks of
\* any sizes
NextStream ==
    \/ \E text \in Questions : FirstSend(text)
    \/ \E r \in DOMAIN reqs : FetchFails(r)
    \/ \E r \in DOMAIN reqs : FetchOk(r)
    \/ \E r \in DOMAIN reqs, line \in WireLines, last \in BOOLEAN :
            ServerEmit(r, line, last)
    \/ \E r \in DOMAIN reqs : \E k \in 1..Len(reqs[r].wire) : ReadValue(r, k)
    \/ \E r \in DOMAIN reqs : ReadDone(r)
    \/ \E r \in DOMAIN reqs : ReadRejects(r)
    \/ ClearMessages

SpecStream == Init /\ [][NextStream]_vars

\* the upload form: any editing of the form, one upload and its outcomes
NextUpload ==
    \/ \E tab \in {"text", "file"} : SetActiveTab(tab)
    \/ \E value \in TextInputs : SetText(value)
    \/ \E value \in SourceInputs : SetSource(value)
    \/ \E selection \in Selections : SetFiles(selection)
    \/ FirstUpload
    \/ IngestSucceeds
    \/ IngestFails

SpecUpload == InitDocs /\ [][NextUpload]_vars

\* the document list: uploads of one file, fetches of the list and deletes
NextDocs ==
    \/ \E selection \in {SubSeq(FileNames, 1, 1)} : SetFiles(selection)
    \/ HandleUpload
    \/ IngestSucceeds
    \/ IngestFails
    \/ \E f \in DOMAIN fetches : ServeDocuments(f)
    \/ \E f \in DOMAIN fetches : FetchDocsSettles(f)
    \/ \E f \in DOMAIN fetches : FetchDocsFails(f)
    \/ \E i \in DOMAIN documents : HandleDelete(documents[i].source)
    \/ \E d \in DOMAIN deletes : DeleteSucceeds(d)
    \/ \E d \in DOMAIN deletes : DeleteFails(d)

SpecDocs == InitDocs /\ [][NextDocs]_vars

\* upload attempts over files that are selected once: the file dialog is
\* not opened again after the first upload
NextRetry ==
    \/ \E selection \in Selections : SelectFiles(selection)
    \/ \E value \in SourceInputs : SetSource(value)
    \/ HandleUpload
    \/ IngestSucceeds
    \/ IngestFails

SpecRetry == InitDocs /\ [][NextRetry]_vars

\* the message input: typing, the send button and the keys, over requests
\* whose streams carry no event
NextInput ==
    \/ \E value \in InputValues : SetInput(value)
    \/ ClickSend
    \/ \E key \in Keys, shiftKey \in BOOLEAN : HandleKeyDown(key, shiftKey)
    \/ \E r \in DOMAIN reqs : FetchFails(r)
    \/ \E r \in DOMAIN reqs : FetchOk(r)
    \/ \E r \in DOMAIN reqs : ReadDone(r)
    \/ \E r \in DOMAIN reqs : ReadRejects(r)
    \/ ClearMessages

SpecInput == Init /\ [][NextInput]_vars

\* the hook by itself: sendMessage called with any string, blank ones
\* included, against the backend's event streams
NextHook ==
    \/ \E question \in Questions : CallSendMessage(question)
    \/ \E r \in DOMAIN reqs : FetchFails(r)
    \/ \E r \in DOMAIN reqs : FetchOk(r)
    \/ \E r \in DOMAIN reqs :
            \E ev \in BackendSourcesEvents \cup BackendAnswerEvents
                        \cup BackendErrorEvents : BackendEmit(r, ev)
    \/ \E r \in DOMAIN reqs : \E k \in ChunkSizes(reqs[r].wire) : ReadValue(r, k)
    \/ \E r \in DOMAIN reqs : BackendReadDone(r)
    \/ \E r \in DOMAIN reqs : ReadRejects(r)

SpecHook == Init /\ [][NextHook]_vars

\* ------------------------------------------------- vocabulary of the claims
\* the chunks request r has passed to onChunk, in call order
RECURSIVE ChunksOf(_)
ChunksOf(calls) ==
    IF calls = <<>> THEN <<>>
    ELSE (IF Head(calls).cb = "onChunk" THEN <<Head(calls).chunk>> ELSE <<>>)
         \o ChunksOf(Tail(calls))
Delivered(r) == ChunksOf(reqs[r].calls)

\* the assistant message of request r, while it is in the list
HasMsg(r) == \E i \in DOMAIN messages : messages[i].id = reqs[r].asstId
AsstMsg(r) == messages[CHOOSE i \in DOMAIN messages : messages[i].id = reqs[r].asstId]

\* the text request r has read so far, all of it decoded at once
RxText(r) == Decode(<<>>, reqs[r].rxBytes).text

\* the concatenation of the answer fields of a sequence of chunks
RECURSIVE ConcatAnswers(_)
ConcatAnswers(chunks) ==
    IF chunks = <<>> THEN <<>>
    ELSE (IF IsAnswerChunk(Head(chunks)) THEN Head(chunks).answer ELSE <<>>)
         \o ConcatAnswers(Tail(chunks))

\* the values of the sources fields of a sequence of chunks, in order
RECURSIVE ConcatSources(_)
ConcatSources(chunks) ==
    IF chunks = <<>> THEN <<>>
    ELSE (IF IsSourcesChunk(Head(chunks)) THEN Head(chunks).sources ELSE <<>>)
         \o ConcatSources(Tail(chunks))

IsPrefix(s, t) == Len(s) <= Len(t) /\ SubSeq(t, 1, Len(s)) = s

\* what askQuestion passes to onChunk when the whole response arrives in one
\* read that is followed by done
OneRead(bytes) ==
    LET step == ReadStep([buffer |-> <<>>, pending |-> <<>>], bytes)
    IN  step.chunks \o ChunksOf(DoneCalls(step.buffer))

\* ------------------------------------------------------------------ claims
\* C1: the chunks passed to onChunk do not depend on how the response is cut
\* into reads.  When the stream has completed they are the chunks a single
\* read of the whole response yields, one per well-formed data line in
\* stream order; while it is being read they are the chunks of the lines
\* completed so far.
C1_SplitIndependent ==
    \A r \in DOMAIN reqs :
        /\ reqs[r].phase = "complete" =>
            /\ Delivered(r) = OneRead(reqs[r].rxBytes)
            /\ Delivered(r) = FlatMapLines(Split(RxText(r), NL))
        /\ reqs[r].phase = "reading" =>
            LET text == RxText(r)
                idx  == LastIndexOf(text, NL)
            IN  Delivered(r) =
                    IF idx = -1 THEN <<>>
                    ELSE FlatMapLines(Split(Slice(text, 0, idx), NL))

\* an event was delivered, and a read has then cut the next data line in
\* the middle of a two-byte character
C1_Witness ==
    \E r \in DOMAIN reqs :
        /\ reqs[r].phase = "reading"
        /\ Len(Delivered(r)) >= 1
        /\ reqs[r].buffer # <<>>
        /\ reqs[r].pending = <<ByteC3>>
        /\ reqs[r].wire = <<ByteA9, "}", NL>>

\* C2: when read() reports done while the buffer holds a non-empty last line
\* without newline, that line is parsed and delivered to onChunk before
\* onComplete is called.
C2_TrailingLine ==
    \A r \in DOMAIN reqs :
        (reqs[r].phase = "complete" /\ reqs[r].atDone # <<>>) =>
            LET calls == reqs[r].calls
                n     == Len(calls)
                last  == LineChunks(reqs[r].atDone)
            IN  /\ calls[n].cb = "onComplete"
                /\ \A i \in 1..(n - 1) : calls[i].cb = "onChunk"
                /\ n - 1 >= Len(last)
                /\ [i \in 1..Len(last) |-> calls[n - 1 - Len(last) + i].chunk] = last
                /\ reqs[r].atDone = SliceFrom(RxText(r), LastIndexOf(RxText(r), NL) + 1)

\* the stream ended with an unterminated answer line, which was delivered
C2_Witness ==
    \E r \in DOMAIN reqs :
        /\ reqs[r].phase = "complete"
        /\ reqs[r].atDone = DataLine(AnswerChunk(<<CharE9>>))
        /\ Len(Delivered(r)) = 2
        /\ Delivered(r)[2] = AnswerChunk(<<CharE9>>)

\* C3: against the backend, exactly one sources event is observed per
\* request and it comes before every answer event: no answer is delivered or
\* applied to the assistant message before the sources event, never more
\* than one sources event is delivered, and a completed stream has delivered
\* exactly one.
SourcesCount(chunks) == Cardinality({i \in DOMAIN chunks : IsSourcesChunk(chunks[i])})

C3_SourcesFirst ==
    \A r \in DOMAIN reqs :
        LET d == Delivered(r)
        IN  /\ \A j \in DOMAIN d :
                  IsAnswerChunk(d[j]) => \E i \in 1..(j - 1) : IsSourcesChunk(d[i])
            /\ SourcesCount(d) <= 1
            /\ reqs[r].phase = "complete" => SourcesCount(d) = 1
            /\ (HasMsg(r) /\ AsstMsg(r).content # <<>>) => SourcesCount(d) = 1

\* a completed stream whose sources event and two answer events were applied
C3_Witness ==
    \E r \in DOMAIN reqs :
        /\ reqs[r].phase = "complete"
        /\ Delivered(r) = <<SourcesChunk(<<"p">>), AnswerChunk(<<"x">>),
                            AnswerChunk(<<"x">>)>>
        /\ HasMsg(r) /\ AsstMsg(r).content = <<"x", "x">>

\* C4: against the backend, an error event is terminal: after an error event
\* was delivered to onChunk no sources or answer event of the request is
\* delivered, and the assistant message holds what was applied before it.
C4_ErrorTerminal ==
    \A r \in DOMAIN reqs :
        LET d == Delivered(r)
        IN  \A i \in DOMAIN d :
                IsErrorChunk(d[i]) =>
                    /\ \A j \in (i + 1)..Len(d) :
                          ~IsSourcesChunk(d[j]) /\ ~IsAnswerChunk(d[j])
                    /\ HasMsg(r) =>
                          /\ AsstMsg(r).content = ConcatAnswers(SubSeq(d, 1, i - 1))
                          /\ AsstMsg(r).sources = ConcatSources(SubSeq(d, 1, i - 1))

\* an error event was delivered after an answer event and the stream ended
C4_Witness ==
    \E r \in DOMAIN reqs :
        /\ reqs[r].phase = "complete"
        /\ Delivered(r) = <<SourcesChunk(<<"p">>), AnswerChunk(<<"x">>),
                            ErrorChunk(<<"!">>)>>
        /\ HasMsg(r)

\* C5: when a stream delivers an error event after answer events, then once
\* the stream has finished the assistant message still holds the partial
\* answer and the chat state's error is not null.
C5_ErrorEventShown ==
    \A r \in DOMAIN reqs :
        (/\ r = Len(reqs)
         /\ reqs[r].phase = "complete"
         /\ HasMsg(r)
         /\ \E i \in DOMAIN Delivered(r) : IsErrorChunk(Delivered(r)[i])
         /\ ConcatAnswers(Delivered(r)) # <<>>)
        => /\ AsstMsg(r).content = ConcatAnswers(Delivered(r))
           /\ error # Null

\* C6: an ask that fails before the first read (fetch rejects, status not
\* ok, no body) calls onError exactly once and never onChunk or onComplete,
\* and the step that handles the failure leaves error non-null and isLoading
\* false.
C6_EarlyFailure ==
    /\ [](\A r \in DOMAIN reqs :
            reqs[r].early =>
                /\ Len(reqs[r].calls) = 1
                /\ reqs[r].calls[1].cb = "onError"
                /\ reqs[r].phase = "failed")
    /\ [][\A r \in DOMAIN reqs :
            (reqs[r].phase = "fetching" /\ reqs'[r].phase = "failed") =>
                /\ reqs'[r].early
                /\ error' \in EarlyErrors /\ error' # Null
                /\ isLoading' = FALSE]_vars

\* a request failed before its first read and the chat shows its error
C6_Witness ==
    \E r \in DOMAIN reqs :
        /\ reqs[r].early /\ reqs[r].phase = "failed"
        /\ error = "HTTP error! status: 500"
        /\ ~isLoading

\* C7: text already received is never retracted.  The step in which a read
\* rejects after answer events were applied leaves the messages list
\* unchanged, and in every step every message that stays in the list keeps
\* its content as a prefix of its new content.
C7_NoRetraction ==
    [][/\ \A r \in DOMAIN reqs :
            (reqs[r].phase = "reading" /\ reqs'[r].phase = "failed") =>
                messages' = messages
       /\ \A i \in DOMAIN messages' :
            (i \in DOMAIN messages /\ messages[i].id = messages'[i].id) =>
                IsPrefix(messages[i].content, messages'[i].content)]_vars

\* a read rejected after an answer event was applied; the text is still there
C7_Witness ==
    \E r \in DOMAIN reqs :
        /\ reqs[r].phase = "failed" /\ ~reqs[r].early
        /\ HasMsg(r) /\ AsstMsg(r).content = <<"x">>
        /\ error = ReadError

\* C8: after a stream has completed, and unless clearMessages removed the
\* message, the assistant message's content is the concatenation, in arrival
\* order, of the answer fields of the events delivered for the request.
C8_ContentIsConcatenation ==
    \A r \in DOMAIN reqs :
        (reqs[r].phase = "complete" /\ HasMsg(r)) =>
            AsstMsg(r).content = ConcatAnswers(Delivered(r))

\* two different answer events were delivered and the stream has completed
C8_Witness ==
    \E r \in DOMAIN reqs :
        /\ reqs[r].phase = "complete" /\ HasMsg(r)
        /\ AsstMsg(r).content = <<"x", CharE9>>

\* C9: the assistant message's sources list has no duplicates and lists the
\* distinct values of the sources events delivered for its request in the
\* order in which they were first encountered.
FirstIndex(s, v) == CHOOSE i \in DOMAIN s : s[i] = v /\ \A j \in 1..(i - 1) : s[j] # v

C9_SourcesDistinctInOrder ==
    \A r \in DOMAIN reqs :
        HasMsg(r) =>
            LET src  == AsstMsg(r).sources
                seen == ConcatSources(Delivered(r))
            IN  /\ \A i, j \in DOMAIN src : i # j => src[i] # src[j]
                /\ {src[i] : i \in DOMAIN src} = {seen[i] : i \in DOMAIN seen}
                /\ \A i, j \in DOMAIN src :
                      i < j => FirstIndex(seen, src[i]) < FirstIndex(seen, src[j])

\* two sources events with repeated values were delivered; q came first
C9_Witness ==
    \E r \in DOMAIN reqs :
        /\ HasMsg(r)
        /\ Delivered(r) = <<SourcesChunk(<<"q", "p", "q">>), SourcesChunk(<<"p">>)>>
        /\ AsstMsg(r).sources = <<"q", "p">>

\* C10: no citation is fabricated.  Every entry of an assistant message's
\* sources list is a value of a sources event delivered for the message's
\* own request; when every sources event delivered for it carried an empty
\* list the message's sources are empty and no source tag is shown, whatever
\* answer text follows.
C10_NoFabricatedCitation ==
    \A r \in DOMAIN reqs :
        HasMsg(r) =>
            LET msg  == AsstMsg(r)
                seen == ConcatSources(Delivered(r))
            IN  /\ \A i \in DOMAIN msg.sources :
                      \E j \in DOMAIN seen : seen[j] = msg.sources[i]
                /\ seen = <<>> => (msg.sources = <<>> /\ ~ShowsSourceTag(msg))

\* an empty sources event and an answer were applied to one message, a
\* sources event naming p to the message of a later request
C10_Witness ==
    \E r1, r2 \in DOMAIN reqs :
        /\ r1 < r2 /\ HasMsg(r1) /\ HasMsg(r2)
        /\ Delivered(r1) = <<SourcesChunk(<<>>), AnswerChunk(<<"x">>)>>
        /\ AsstMsg(r1).content = <<"x">> /\ ~ShowsSourceTag(AsstMsg(r1))
        /\ AsstMsg(r2).sources = <<"p">> /\ ShowsSourceTag(AsstMsg(r2))

\* C11: every askQuestion call ends in one terminal state.  A call that has
\* ended has made exactly one terminal callback call, onComplete when the
\* stream completed and onError when it failed, and that call is its last:
\* no onChunk follows it.  A call that has not ended has made none.  Every
\* failure ends in onError, so askQuestion never rejects.
IsTerminalCall(c) == c.cb = "onComplete" \/ c.cb = "onError"
TerminalCalls(calls) == {i \in DOMAIN calls : IsTerminalCall(calls[i])}

C11_SingleTerminal ==
    \A r \in DOMAIN reqs :
        LET calls == reqs[r].calls
            n     == Len(calls)
        IN  /\ Cardinality(TerminalCalls(calls)) <= 1
            /\ TerminalCalls(calls) \subseteq {n}
            /\ reqs[r].phase = "complete" =>
                    (n >= 1 /\ calls[n].cb = "onComplete")
            /\ reqs[r].phase = "failed" =>
                    (n >= 1 /\ calls[n].cb = "onError")
            /\ reqs[r].phase \in {"fetching", "reading"} =>
                    TerminalCalls(calls) = {}

\* one call failed after a chunk was delivered, a later one completed
C11_Witness ==
    \E r1, r2 \in DOMAIN reqs :
        /\ r1 < r2
        /\ reqs[r1].phase = "failed" /\ Len(reqs[r1].calls) = 2
        /\ reqs[r1].calls[1].cb = "onChunk"
        /\ reqs[r2].phase = "complete" /\ Len(reqs[r2].calls) >= 2

\* C12: isLoading is true if and only if at least one ask request started by
\* sendMessage has not yet reached onComplete or onError.
InFlight(r) == reqs[r].phase \in {"fetching", "reading"}

C12_LoadingIffInFlight ==
    isLoading <=> (\E r \in DOMAIN reqs : InFlight(r))

\* C13: the ask request carries only the question.  In the step that sends a
\* question the body of the new request is the JSON of that question alone,
\* and it equals the body of every earlier request for the same question,
\* whatever the messages, sources and error of the chat were at either send.
C13_RequestIsQuestionOnly ==
    [][Len(reqs') = Len(reqs) + 1 =>
        LET n == Len(reqs')
            userMessage == messages'[Len(messages') - 1]
        IN  /\ userMessage.role = "user"
            /\ reqs'[n].question = userMessage.content
            /\ reqs'[n].body = AskBody([question |-> userMessage.content])
            /\ \A r \in DOMAIN reqs :
                  reqs[r].question = reqs'[n].question =>
                      reqs[r].body = reqs'[n].body]_vars

\* a second question was sent in a chat that shows an answer with a source
C13_Witness ==
    /\ Len(reqs) = 2 /\ Len(messages) = 4
    /\ messages[2].sources = <<"p">> /\ messages[2].content = <<"x">>
    /\ reqs[2].phase = "fetching"
    /\ reqs[1].body = reqs[2].body

\* the ingest requests of the handleUpload call numbered op, in issue order
RequestsOf(log, op) == SelectSeq(log, LAMBDA q : q.op = op)

\* the sum of chunks_processed over the answers to a sequence of requests
RECURSIVE SumChunks(_)
SumChunks(requests) ==
    IF requests = <<>> THEN 0
    ELSE ChunkCount(Head(requests)) + SumChunks(Tail(requests))

IsBlank(s) == Trim(s) = <<>>

\* C14: in the text tab, handleUpload with a blank text or a blank source
\* shows an error message, sends no ingest request and leaves text, source
\* and isUploading unchanged.  The validation yields the error for every
\* such form, and no step from such a form, while no upload is running,
\* issues a request or changes isUploading; the step that changes the
\* message sets the validation error and keeps text and source.
C14_BlankTextOrSourceRejected ==
    /\ [](\A text \in TextInputs, source \in SourceInputs :
            (IsBlank(text) \/ IsBlank(source)) =>
                ValidationMessage([upload EXCEPT !.activeTab = "text",
                                                 !.text = text,
                                                 !.source = source])
                    = ErrorMessage("Please provide both text and source name"))
    /\ [][(/\ upload.activeTab = "text"
           /\ ~job.active
           /\ (IsBlank(upload.text) \/ IsBlank(upload.source)))
          => /\ ingests' = ingests
             /\ upload'.isUploading = upload.isUploading
             /\ job' = job
             /\ upload'.message # upload.message =>
                    /\ upload'.message =
                          ErrorMessage("Please provide both text and source name")
                    /\ upload'.text = upload.text
                    /\ upload'.source = upload.source]_vars

\* the upload button was pressed with a text and a whitespace-only source
C14_Witness ==
    /\ upload.activeTab = "text"
    /\ upload.text = <<"t">> /\ upload.source = <<" ">>
    /\ upload.message = ErrorMessage("Please provide both text and source name")
    /\ ingests = <<>> /\ ~upload.isUploading

\* C15: in a file upload every file is ingested under the source override
\* when one is given and under its own file name when none is given: the
\* k-th request of the running upload carries the k-th selected file and
\* that label.
C15_FileSourceLabel ==
    (job.active /\ job.tab = "file") =>
        LET requests == RequestsOf(ingests, job.op)
        IN  /\ Len(requests) = job.i
            /\ \A k \in DOMAIN requests :
                  /\ requests[k].kind = "file"
                  /\ requests[k].payload = job.files[k]
                  /\ requests[k].source =
                        IF job.source = <<>> THEN job.files[k] ELSE job.source

\* two files are uploaded under an override; the second request is pending
C15_Witness ==
    /\ job.active /\ job.tab = "file" /\ job.source = <<"s">>
    /\ Len(ingests) = 2
    /\ ingests[1].payload = <<"a">> /\ ingests[1].source = <<"s">>
    /\ ingests[2].payload = <<"b">> /\ ingests[2].source = <<"s">>

\* C16: when a file upload ends with the success message, the total it
\* reports is the sum of chunks_processed over the files, and exactly one
\* ingest request was issued per file, each of which succeeded.
C16_TotalIsSum ==
    [][(job.active /\ job.tab = "file" /\ upload'.message.type = "success"
            /\ ~job'.active)
       => LET requests == RequestsOf(ingests', job.op)
          IN  /\ Len(requests) = Len(job.files)
              /\ \A k \in DOMAIN requests :
                    requests[k].payload = job.files[k] /\ requests[k].outcome = "ok"
              /\ upload'.message.chunks = SumChunks(requests)
              /\ upload'.message.files = Len(job.files)]_vars

\* two files of one and two chunks were uploaded: three chunks are reported
C16_Witness ==
    /\ upload.message = FilesSuccess(3, <<<<"a">>, <<"b">>>>)
    /\ Len(ingests) = 2 /\ Len(store) - Len(DeleteBySource(store, <<"b">>)) = 2

\* C17: in a multi-file upload every selected file gets its own ingest
\* request, whether or not the ingestion of another file fails: when the
\* upload has ended, one request was issued per selected file.
C17_EveryFileSubmitted ==
    [][(job.active /\ job.tab = "file" /\ ~job'.active)
       => Len(RequestsOf(ingests', job.op)) = Len(job.files)]_vars

\* C18: no ingestion failure is reported as success.  The step that ends an
\* upload shows a success message only if every request of the upload
\* succeeded; if one failed it shows an error message that carries the
\* failure's description, without a chunk count.
C18_NoFailureAsSuccess ==
    [][(job.active /\ ~job'.active)
       => LET requests == RequestsOf(ingests', job.op)
              allOk    == \A k \in DOMAIN requests : requests[k].outcome = "ok"
          IN  /\ upload'.message.type = "success" <=> allOk
              /\ ~allOk =>
                    /\ upload'.message.type = "error"
                    /\ upload'.message.text \in {ValidationFailure, UpstreamFailure}
                    /\ upload'.message.chunks = 0
              /\ ~upload'.isUploading]_vars

\* the second of two files failed after the first was ingested
C18_Witness ==
    /\ upload.message = ErrorMessage(UpstreamFailure)
    /\ Len(ingests) = 2
    /\ ingests[1].outcome = "ok" /\ ingests[2].outcome = "failed"
    /\ ~job.active /\ ~upload.isUploading

\* the entries of a response that are the first of their source
FirstOfSource(resp) ==
    {i \in DOMAIN resp : \A j \in 1..(i - 1) : resp[j].source # resp[i].source}
\* the k-th smallest element of a set of numbers
Nth(set, k) == CHOOSE i \in set : Cardinality({j \in set : j < i}) = k - 1

\* C19: when a fetchDocs call ends with a resolved getDocuments, the list
\* shown holds exactly the entries of the response that are the first of
\* their source, in the order of the response.
C19_OnePerSource ==
    [][\A f \in DOMAIN fetches :
          (fetches[f].state = "ok" /\ fetches'[f].state = "settled") =>
              LET resp == fetches[f].data
                  kept == FirstOfSource(resp)
              IN  /\ Len(documents') = Cardinality(kept)
                  /\ \A k \in DOMAIN documents' :
                        documents'[k] = resp[Nth(kept, k)]
                  /\ \A i \in DOMAIN resp : \E k \in DOMAIN documents' :
                        documents'[k].source = resp[i].source]_vars

\* a store of three chunks of two sources is listed as two documents
C19_Witness ==
    /\ Len(store) = 3
    /\ documents = << [id |-> 1, source |-> <<"s">>], [id |-> 2, source |-> <<"a">>] >>
    /\ \A f \in DOMAIN fetches : fetches[f].state = "settled"

\* C20: delete by source is idempotent.  A delete the backend serves is
\* answered with status success; afterwards the store holds no chunk of the
\* source, so deleting it again changes nothing; when the source has no
\* chunk the store stays as it is; and deleteDocument does not throw: the
\* handleDelete call goes on to refresh the list.
C20_DeleteIdempotent ==
    [][\A d \in DOMAIN deletes :
          (deletes[d].state = "sent" /\ deletes'[d].status = "success") =>
              LET source == deletes[d].source
              IN  /\ DeleteBySource(store', source) = store'
                  /\ store' = DeleteBySource(store, source)
                  /\ (\A i \in DOMAIN store : store[i].source # source)
                        => store' = store
                  /\ deletes'[d].state = "refreshing"
                  /\ Len(fetches') = Len(fetches) + 1]_vars

\* the same source was deleted twice; the second delete matched nothing
C20_Witness ==
    /\ Len(deletes) = 2
    /\ deletes[1].source = deletes[2].source
    /\ deletes[1].status = "success" /\ deletes[1].deleted = 2
    /\ deletes[2].status = "success" /\ deletes[2].deleted = 0
    /\ deletes[2].state = "refreshing"

\* C21: MessageInput invokes onSend only when isLoading is false and the
\* input is not blank, whether through the send button or the Enter key: every
\* step that sends a request starts with isLoading false and a non-blank
\* input, sends that input as the question and leaves the input empty; and
\* no step is a key press with Shift held that changed anything.
C21_SendOnlyWhenReady ==
    [][/\ Len(reqs') # Len(reqs) =>
            /\ ~isLoading
            /\ ~IsBlank(input)
            /\ Len(reqs') = Len(reqs) + 1
            /\ reqs'[Len(reqs')].question = input
            /\ input' = <<>>
       /\ \A key \in Keys : ~HandleKeyDown(key, TRUE)]_vars

\* a question was sent, answered, and a blank text typed after it
C21_Witness ==
    /\ Len(reqs) = 1 /\ reqs[1].question = <<"h", "i">>
    /\ reqs[1].phase = "complete"
    /\ input = <<" ">> /\ ~isLoading

\* a line that can be used: the marker followed by valid JSON
IsUsableLine(line) ==
    StartsWith(line, Marker) /\ JSONParse(Trim(SliceFrom(line, 6))) # SyntaxError

\* C22: a line that cannot be used does not abort the stream.  While a
\* stream is read and when it has completed no onError was called, whatever
\* lines it carried; when it has completed, onChunk was called once for each
\* usable line of the response, in stream order, with the chunk the line
\* denotes, and for no other line.
C22_UnusableLinesSkipped ==
    \A r \in DOMAIN reqs :
        reqs[r].phase \in {"reading", "complete"} =>
            /\ \A i \in DOMAIN reqs[r].calls : reqs[r].calls[i].cb # "onError"
            /\ reqs[r].phase = "complete" =>
                LET lines  == Split(RxText(r), NL)
                    usable == {i \in DOMAIN lines : IsUsableLine(lines[i])}
                    d      == Delivered(r)
                IN  /\ Len(d) = Cardinality(usable)
                    /\ \A k \in DOMAIN d :
                          d[k] = JSONParse(Trim(SliceFrom(lines[Nth(usable, k)], 6)))

\* a data line with broken JSON was followed by an answer line, which was
\* delivered
C22_Witness ==
    \E r \in DOMAIN reqs :
        /\ reqs[r].phase = "complete"
        /\ Split(RxText(r), NL)[1] = Marker \o <<"{", "A">>
        /\ Delivered(r) = <<AnswerChunk(<<"x">>)>>

\* C23: the step in which sendMessage sends a request has a non-blank
\* question and appends exactly two messages to the end of the list, the user
\* message carrying the question and then an assistant message with empty
\* content and empty sources, under two ids no message had; it leaves every
\* earlier message as it was and sets isLoading to true and error to null.
\* sendMessage with a blank question is no such step: it changes nothing
\* and sends no request.
C23_SendMessageFrame ==
    [][Len(reqs') # Len(reqs) =>
        LET n == Len(messages)
            question == reqs'[Len(reqs')].question
        IN  /\ Len(reqs') = Len(reqs) + 1
            /\ SubSeq(reqs', 1, Len(reqs)) = reqs
            /\ ~IsBlank(question)
            /\ Len(messages') = n + 2
            /\ SubSeq(messages', 1, n) = messages
            /\ messages'[n + 1].role = "user"
            /\ messages'[n + 1].content = question
            /\ messages'[n + 2].role = "assistant"
            /\ messages'[n + 2].content = <<>>
            /\ messages'[n + 2].sources = <<>>
            /\ messages'[n + 2].id = reqs'[Len(reqs')].asstId
            /\ messages'[n + 1].id # messages'[n + 2].id
            /\ \A i \in 1..n : messages[i].id \notin {messages'[n + 1].id,
                                                      messages'[n + 2].id}
            /\ isLoading' = TRUE
            /\ error' = Null]_vars

\* a second question was sent after the first had failed with an answer
\* partly shown: four messages, no error, loading
C23_Witness ==
    /\ Len(reqs) = 2 /\ Len(messages) = 4
    /\ reqs[1].phase = "failed" /\ messages[2].content = <<"x">>
    /\ reqs[2].phase = "fetching"
    /\ isLoading /\ error = Null

C25_ResetSticks ==
    [][(/\ messages = <<>> /\ ~isLoading /\ error = Null
        /\ Len(reqs') = Len(reqs))
       => (messages' = <<>> /\ ~isLoading' /\ error' = Null)]_vars

\* C26: the document list is never left showing stale data.  When every
\* fetchDocs call made so far has returned and the most recently issued one
\* got its response, the list shown is the de-duplicated content of that
\* response.
C26_LatestFetchShown ==
    (/\ fetches # <<>>
     /\ \A f \in DOMAIN fetches : fetches[f].state \in {"settled", "failed"}
     /\ fetches[Len(fetches)].state = "settled")
    => documents = UniqueDocs(fetches[Len(fetches)].data)

\* C27: while the DELETE request of a handleDelete call for source S is in
\* flight isDeleting equals S, and isDeleting is null when no handleDelete
\* call is running.
C27_IsDeletingTracksDeletes ==
    /\ \A d \in DOMAIN deletes :
          deletes[d].state = "sent" => isDeleting = deletes[d].source
    /\ (\A d \in DOMAIN deletes : deletes[d].state \notin {"sent", "refreshing"})
          => isDeleting = NullSource

\* C28: the upload client does not re-ingest what it already ingested.  While
\* the user selects no file again, no step submits a file for ingestion that
\* an earlier request has already ingested successfully.
C28_NoReingest ==
    [][\A k \in DOMAIN ingests' :
          (k > Len(ingests) /\ ingests'[k].kind = "file") =>
              \A e \in DOMAIN ingests :
                  ~(/\ ingests[e].kind = "file"
                    /\ ingests[e].payload = ingests'[k].payload
                    /\ ingests[e].outcome = "ok")]_vars

\* C29: every ask finishes on the client, provided its fetch settles and its
\* response stream closes or fails.  Whenever isLoading is true it is
\* eventually false; every request sent eventually reaches onComplete or
\* onError; and the step in which it does leaves isLoading false.
C29_AskFinishes ==
    /\ isLoading ~> ~isLoading
    /\ \A r \in 1..MaxRequests :
          (r \in DOMAIN reqs) ~> (/\ r \in DOMAIN reqs
                                  /\ reqs[r].phase \in {"complete", "failed"})
    /\ [][\A r \in DOMAIN reqs :
            (/\ r \in DOMAIN reqs'
             /\ InFlight(r)
             /\ reqs'[r].phase \in {"complete", "failed"})
            => isLoading' = FALSE]_vars

\* two questions were asked one after the other; the stream of the first
\* completed, that of the second failed, and the chat is not loading
C29_Witness ==
    /\ Len(reqs) = 2 /\ Len(messages) = 4
    /\ reqs[1].phase = "complete" /\ reqs[2].phase = "failed"
    /\ ~isLoading

====
